---------------------------- MODULE Spec2Model ----------------------------
(***************************************************************************)
(* Model of pre_commit_hooks/commit_message_hook.py: the commit-msg hook   *)
(* that validates one commit message file.                                 *)
(*                                                                         *)
(* A text (a line, a title, a tracker token) is a sequence of one-character*)
(* strings, so that len(), startswith(), strip(), isdigit() and slicing are*)
(* computed as Python computes them.  The user-facing messages are opaque  *)
(* and are kept as TLA+ strings.                                           *)
(***************************************************************************)
EXTENDS Integers, Sequences, FiniteSets, TLC

VARIABLES
    file,           \* the lines of the file named by sys.argv[1], as readlines() returns them
    pc,             \* position of the process in check_commit_msg_pattern
    commit_message, \* local commit_message
    title,          \* local title
    has_warning,    \* local has_warning
    valid_issue_tracker_tool_with_suffix, \* loop variable of lines 109-116 (<<>> stands for None)
    stdout,         \* what the process has printed, in order
    exit_status,    \* -1 while the process runs, then the status of sys.exit
    evaluated       \* the checks whose condition has been evaluated, in order

vars == <<file, pc, commit_message, title, has_warning,
          valid_issue_tracker_tool_with_suffix, stdout, exit_status, evaluated>>

---------------------------------------------------------------------------
(* Bounds of the explored inputs *)

\* largest number of lines that follow the title in an enumerated file
MaxRest == 3
\* largest number of comment lines that precede the title
MaxLead == 1

---------------------------------------------------------------------------
(* Python string primitives *)

Whitespace == {" ", "\t", "\n", "\r", "\f"}

Digits == {"0", "1", "2", "3", "4", "5", "6", "7", "8", "9"}

\* s[n:] for 0 <= n
DropFirst(s, n) == IF n >= Len(s) THEN <<>> ELSE SubSeq(s, n + 1, Len(s))

\* s.startswith(p)
StartsWith(s, p) == Len(p) <= Len(s) /\ SubSeq(s, 1, Len(p)) = p

\* p in s
Contains(s, p) == \E i \in 0..(Len(s) - Len(p)) : SubSeq(s, i + 1, i + Len(p)) = p

\* s.isdigit(): non-empty and every character a digit
IsDigit(s) == Len(s) > 0 /\ \A i \in 1..Len(s) : s[i] \in Digits

\* s.strip(): leading and trailing whitespace removed
Strip(s) ==
    LET nonws == {i \in 1..Len(s) : s[i] \notin Whitespace}
    IN  IF nonws = {} THEN <<>>
        ELSE LET lo == CHOOSE i \in nonws : \A j \in nonws : i <= j
                 hi == CHOOSE i \in nonws : \A j \in nonws : j <= i
             IN  SubSeq(s, lo, hi)

---------------------------------------------------------------------------
(* Enumerations and fixed lists of the hook *)

Bcolors == [OK |-> "\\033[92m", INFO |-> "\\033[94m",
            WARNING |-> "\\033[93m", ERROR |-> "\\033[91m"]

Level == {"OK", "INFO", "WARNING", "ERROR"}

valid_commit_types ==
    << <<"f", "e", "a", "t">>, <<"f", "i", "x">>,
       <<"r", "e", "f", "a", "c", "t", "o", "r">>, <<"s", "t", "y", "l", "e">>,
       <<"d", "o", "c", "s">>, <<"t", "e", "s", "t">>,
       <<"c", "h", "o", "r", "e">>, <<"r", "e", "v", "e", "r", "t">> >>

valid_issue_tracker_tools ==
    << <<"j", "i", "r", "a">>, <<"g", "i", "t", "h", "u", "b">>,
       <<"g", "i", "t", "l", "a", "b">>,
       <<"b", "i", "t", "b", "u", "c", "k", "e", "t">>,
       <<"l", "a", "u", "n", "c", "h", "p", "a", "d">>,
       <<"z", "e", "n", "d", "e", "s", "k">> >>

valid_issue_tracker_tools_short_names ==
    << <<"j", "r">>, <<"g", "h">>, <<"g", "l">>, <<"b", "b">>, <<"l", "p">>, <<"z", "d">> >>

valid_issue_tracker_suffixes == << <<":">>, <<"/">>, <<"#">>, <<"-">>, <<" ">> >>

\* the nested loops of lines 99-101 and 104-106: for each name, in order,
\* the name followed by each suffix, in order
WithSuffixes(names) ==
    [k \in 1..(Len(names) * Len(valid_issue_tracker_suffixes)) |->
        names[((k - 1) \div Len(valid_issue_tracker_suffixes)) + 1]
            \o valid_issue_tracker_suffixes[((k - 1) % Len(valid_issue_tracker_suffixes)) + 1]]

valid_issue_tracker_tools_with_suffixes ==
    WithSuffixes(valid_issue_tracker_tools) \o WithSuffixes(valid_issue_tracker_tools_short_names)

---------------------------------------------------------------------------
(* The user-facing messages *)

MsgMinLines == "There should at least 4 lines in your commit message."
MsgTitleLength == "There should be less then 50 characters in the commit title."
MsgCommitType == "The commit title needs to have a commit type: feat, fix, refactor, style, docs, test, chore, revert"
MsgTrackerRef == "The commit title needs to have a issue track tool code and number type: feat, fix, refactor, style, docs, test, chore, revert"
MsgSeparator == "There should be an empty line between the commit title and body."
MsgBodyWrap == "The commit body should wrap at 72 characters."
MsgStoryId == "Please add a Story ID in the commit message."
MsgOk == "The commit message has the required pattern."

---------------------------------------------------------------------------
(* The conditions of the checks *)

\* line 59: the line is a comment line
IsCommentLine(line) == StartsWith(Strip(line), <<"#">>)

\* line 59: the list comprehension
StripCommentLines(lines) == SelectSeq(lines, LAMBDA line : ~IsCommentLine(line))

\* a threshold of three lines instead of four
TooFewLines_Three(msg) == Len(msg) < 3

\* line 64
TooFewLines(msg) == Len(msg) < 4

\* the body's limit of 72 used for the title
TitleTooLong_BodyLimit(t) == Len(t) > 72

\* an off-by-one comparison, >= in place of >
TitleTooLong_AtLeast(t) == Len(t) >= 50

\* line 70: the title is a line of readlines(), its line terminator included
TitleTooLong(t) == Len(t) > 50

\* a substring test in place of startswith
HasCommitType_Anywhere(t) == \E i \in 1..Len(valid_commit_types) : Contains(t, valid_commit_types[i])

\* line 79
HasCommitType(t) == \E i \in 1..Len(valid_commit_types) : StartsWith(t, valid_commit_types[i])

\* line 91, over the loop of line 90
StartsWithTrackerTool(t) ==
    \E i \in 1..Len(valid_issue_tracker_tools) : StartsWith(t, valid_issue_tracker_tools[i])

\* lines 111-112: the token matches the start of the title and what follows is not a number
BadTrackerReference(t, token) == StartsWith(t, token) /\ ~IsDigit(DropFirst(t, Len(token)))

\* lines 110-116: the indices of the tokens at which the loop would exit
BadTrackerIndices(t) ==
    {k \in 1..Len(valid_issue_tracker_tools_with_suffixes) :
        BadTrackerReference(t, valid_issue_tracker_tools_with_suffixes[k])}

\* line 127 (below the unconditional exit of line 119)
SeparatorMissing(msg) == Strip(msg[2]) # <<>>

\* line 137 (below the unconditional exit of line 119)
BodyLineTooLong(line) == Len(line) > 72

\* lines 135-146 (below the unconditional exit of line 119)
HasStoryId(msg) == \E i \in 3..Len(msg) : Contains(msg[i], <<"[", "#">>)

---------------------------------------------------------------------------
(* Output and exit *)

\* print_with_color(message, level): one coloured diagnostic line on stdout
print_with_color(message, level) ==
    Append(stdout, [kind |-> "diagnostic", color |-> Bcolors[level],
                    level |-> level, text |-> message])

\* print(x) of line 118: the raw value, no level, no policy text
PrintRaw(x) == Append(stdout, [kind |-> "raw", value |-> x])

\* sys.exit(code)
SysExit(code) == pc' = "exited" /\ exit_status' = code

---------------------------------------------------------------------------
(* Enumerated inputs *)

Nl == <<"\n">>

\* a text of exactly n characters that starts with prefix
Pad(prefix, n) == prefix \o [i \in 1..(n - Len(prefix)) |-> "x"]

CommentLine == <<"#", " ", "c", "o", "m", "m", "e", "n", "t", "\n">>
IndentedCommentLine == <<" ", " ", "#", " ", "n", "o", "t", "e", "\n">>
StoryLine == <<"i", "m", "p", "l", "e", "m", "e", "n", "t", "s", " ", "o", "a", "u", "t", "h", " ",
               "[", "#", "1", "2", "3", "]", "\n">>
PlainLine == <<"b", "o", "d", "y", " ", "t", "e", "x", "t", "\n">>
LongLine == Pad(<<"b", "o", "d", "y", " ">>, 73) \o Nl

TFeat == <<"f", "e", "a", "t", ":", " ">>
TAdd == <<"a", "d", "d", " ">>

TitleTexts ==
    { <<"f", "e", "a", "t", ":", " ", "a", "d", "d", " ", "l", "o", "g", "i", "n">>,
      <<"f", "i", "x", " ", "b", "u", "g">>,
      <<"a", "d", "d", " ", "t", "e", "s", "t">>,
      <<"g", "h", "#", "4", "5", "6">>,
      <<"j", "i", "r", "a", ":", "1", "2">>,
      Pad(TFeat, 49), Pad(TFeat, 50), Pad(TFeat, 51),
      Pad(TAdd, 49), Pad(TAdd, 50), Pad(TAdd, 51),
      Pad(<<"j", "i", "r", "a", ":">>, 51) }

\* <type><tracker-token><remainder> for every type, every token and a few remainders
TrackerRemainders == { <<"4", "5", "6">>, <<"a", "b", "c">>, <<"4", "a">> }

TrackerTitleTexts ==
    { valid_commit_types[i] \o valid_issue_tracker_tools_with_suffixes[k] \o r :
        i \in 1..Len(valid_commit_types),
        k \in 1..Len(valid_issue_tracker_tools_with_suffixes),
        r \in TrackerRemainders }

RestLines == { Nl, CommentLine, StoryLine, PlainLine, LongLine }

Rests == UNION { [1..n -> RestLines] : n \in 0..MaxRest }

Leads == { [i \in 1..n |-> IF i % 2 = 1 THEN IndentedCommentLine ELSE CommentLine] : n \in 0..MaxLead }

TrackerRests == { <<Nl, StoryLine, Nl>>, <<PlainLine, StoryLine, Nl>>, <<Nl, StoryLine>> }

Files ==
    Leads
    \cup { lead \o <<t \o Nl>> \o rest : lead \in Leads, t \in TitleTexts, rest \in Rests }
    \cup { <<t \o Nl>> \o rest : t \in TrackerTitleTexts, rest \in TrackerRests }

---------------------------------------------------------------------------
(* The process *)

Init ==
    /\ file \in Files
    /\ pc = "read"
    /\ commit_message = <<>>
    /\ title = <<>>
    /\ has_warning = FALSE
    /\ valid_issue_tracker_tool_with_suffix = <<>>
    /\ stdout = <<>>
    /\ exit_status = -1
    /\ evaluated = <<>>

\* lines 52-56
ReadFile ==
    /\ pc = "read"
    /\ commit_message' = file
    /\ pc' = "strip"
    /\ UNCHANGED <<file, title, has_warning, valid_issue_tracker_tool_with_suffix,
                   stdout, exit_status, evaluated>>

\* line 59
StripComments ==
    /\ pc = "strip"
    /\ commit_message' = StripCommentLines(commit_message)
    /\ pc' = "min_lines"
    /\ UNCHANGED <<file, title, has_warning, valid_issue_tracker_tool_with_suffix,
                   stdout, exit_status, evaluated>>

\* lines 63-67
CheckMinLines ==
    /\ pc = "min_lines"
    /\ evaluated' = Append(evaluated, "min_lines")
    /\ has_warning' = FALSE
    /\ IF TooFewLines(commit_message)
       THEN /\ stdout' = print_with_color(MsgMinLines, "ERROR")
            /\ SysExit(1)
       ELSE /\ pc' = "title_length"
            /\ UNCHANGED <<stdout, exit_status>>
    /\ UNCHANGED <<file, commit_message, title, valid_issue_tracker_tool_with_suffix>>

\* lines 69-76
CheckTitleLength ==
    /\ pc = "title_length"
    /\ evaluated' = Append(evaluated, "title_length")
    /\ title' = commit_message[1]
    /\ IF TitleTooLong(title')
       THEN /\ has_warning' = TRUE
            /\ stdout' = print_with_color(MsgTitleLength, "WARNING")
            /\ SysExit(1)
       ELSE /\ pc' = "commit_type"
            /\ UNCHANGED <<has_warning, stdout, exit_status>>
    /\ UNCHANGED <<file, commit_message, valid_issue_tracker_tool_with_suffix>>

\* lines 78-83
CheckCommitType ==
    /\ pc = "commit_type"
    /\ evaluated' = Append(evaluated, "commit_type")
    /\ IF ~HasCommitType(title)
       THEN /\ has_warning' = TRUE
            /\ stdout' = print_with_color(MsgCommitType, "WARNING")
            /\ SysExit(1)
       ELSE /\ pc' = "tracker_tool"
            /\ UNCHANGED <<has_warning, stdout, exit_status>>
    /\ UNCHANGED <<file, commit_message, title, valid_issue_tracker_tool_with_suffix>>

\* lines 85-95
CheckTrackerTool ==
    /\ pc = "tracker_tool"
    /\ evaluated' = Append(evaluated, "tracker_tool")
    /\ IF StartsWithTrackerTool(title)
       THEN /\ has_warning' = TRUE
            /\ stdout' = print_with_color(MsgCommitType, "WARNING")
            /\ SysExit(1)
       ELSE /\ pc' = "tracker_reference"
            /\ UNCHANGED <<has_warning, stdout, exit_status>>
    /\ UNCHANGED <<file, commit_message, title, valid_issue_tracker_tool_with_suffix>>

\* lines 97-116
CheckTrackerReference ==
    /\ pc = "tracker_reference"
    /\ evaluated' = Append(evaluated, "tracker_reference")
    /\ LET tokens == valid_issue_tracker_tools_with_suffixes
           bad == BadTrackerIndices(title)
       IN  IF bad # {}
           THEN /\ valid_issue_tracker_tool_with_suffix' =
                       tokens[CHOOSE k \in bad : \A j \in bad : k <= j]
                /\ has_warning' = TRUE
                /\ stdout' = print_with_color(MsgTrackerRef, "WARNING")
                /\ SysExit(1)
           ELSE /\ valid_issue_tracker_tool_with_suffix' = tokens[Len(tokens)]
                /\ pc' = "print_token"
                /\ UNCHANGED <<has_warning, stdout, exit_status>>
    /\ UNCHANGED <<file, commit_message, title>>

\* lines 118-119: the unconditional print and exit; nothing below line 119 runs
PrintTokenAndExit ==
    /\ pc = "print_token"
    /\ stdout' = PrintRaw(valid_issue_tracker_tool_with_suffix)
    /\ SysExit(1)
    /\ UNCHANGED <<file, commit_message, title, has_warning,
                   valid_issue_tracker_tool_with_suffix, evaluated>>

Next ==
    \/ ReadFile
    \/ StripComments
    \/ CheckMinLines
    \/ CheckTitleLength
    \/ CheckCommitType
    \/ CheckTrackerTool
    \/ CheckTrackerReference
    \/ PrintTokenAndExit

Spec == Init /\ [][Next]_vars

TypeOK ==
    /\ pc \in {"read", "strip", "min_lines", "title_length", "commit_type",
               "tracker_tool", "tracker_reference", "print_token", "exited"}
    /\ exit_status \in {-1, 0, 1}
    /\ has_warning \in BOOLEAN
    /\ (pc = "exited") = (exit_status # -1)

---------------------------------------------------------------------------
(* Vocabulary of the properties *)

Done == pc = "exited"

\* the text of a line, its line terminator not counted
TitleText(line) ==
    IF Len(line) > 0 /\ line[Len(line)] = "\n" THEN SubSeq(line, 1, Len(line) - 1) ELSE line

\* the first non-whitespace character of the line is '#'
FirstNonBlankIsHash(line) ==
    \E i \in 1..Len(line) : line[i] = "#" /\ \A j \in 1..(i - 1) : line[j] \in Whitespace

\* the input with its comment lines removed
NonCommentLines == SelectSeq(file, LAMBDA line : ~FirstNonBlankIsHash(line))

TypeTags == {valid_commit_types[i] : i \in 1..Len(valid_commit_types)}
TrackerNames == {valid_issue_tracker_tools[i] : i \in 1..Len(valid_issue_tracker_tools)}
TrackerTokens ==
    {name \o sep :
        name \in TrackerNames \cup {valid_issue_tracker_tools_short_names[i] :
                                      i \in 1..Len(valid_issue_tracker_tools_short_names)},
        sep \in {valid_issue_tracker_suffixes[i] : i \in 1..Len(valid_issue_tracker_suffixes)}}

StartsWithTypeTag(text) == \E tag \in TypeTags : StartsWith(text, tag)
StartsWithTrackerName(text) == \E name \in TrackerNames : StartsWith(text, name)

\* <type><tracker-token><digits>
IsTypeTokenDigits(text) ==
    \E tag \in TypeTags, token \in TrackerTokens :
        /\ StartsWith(text, tag \o token)
        /\ IsDigit(DropFirst(text, Len(tag) + Len(token)))

\* <type><tracker-token><remainder that is not entirely numeric>
IsTypeTokenNonDigits(text) ==
    \E tag \in TypeTags, token \in TrackerTokens :
        /\ StartsWith(text, tag \o token)
        /\ ~IsDigit(DropFirst(text, Len(tag) + Len(token)))

Diagnostic(level, text) ==
    [kind |-> "diagnostic", color |-> Bcolors[level], level |-> level, text |-> text]

Diagnostics == SelectSeq(stdout, LAMBDA r : r.kind = "diagnostic")

Reported(level, text) == \E i \in 1..Len(stdout) : stdout[i] = Diagnostic(level, text)

\* the process stopped with exactly this diagnostic on its output and a failing status
StoppedWith(level, text) ==
    /\ pc = "exited"
    /\ exit_status = 1
    /\ stdout = <<Diagnostic(level, text)>>

\* the message passes the structure and title-length checks as the hook applies them
PassesStructureAndLength ==
    /\ Len(NonCommentLines) >= 4
    /\ Len(NonCommentLines[1]) <= 50

\* the title raises nothing in checks 4 to 6 of the pipeline
PassesTitleChecks ==
    /\ StartsWithTypeTag(TitleText(NonCommentLines[1]))
    /\ ~StartsWithTrackerName(TitleText(NonCommentLines[1]))
    /\ ~IsTypeTokenNonDigits(TitleText(NonCommentLines[1]))

\* the earliest check of the pipeline that the message violates, "none" if it violates none
FirstViolation ==
    LET m == NonCommentLines
    IN  IF Len(m) < 4 THEN "min_lines"
        ELSE IF Len(m[1]) > 50 THEN "title_length"
        ELSE IF ~StartsWithTypeTag(TitleText(m[1])) THEN "commit_type"
        ELSE IF StartsWithTrackerName(TitleText(m[1])) THEN "tracker_tool"
        ELSE IF IsTypeTokenNonDigits(TitleText(m[1])) THEN "tracker_reference"
        ELSE IF SeparatorMissing(m) THEN "separator"
        ELSE IF \E i \in 3..Len(m) : BodyLineTooLong(m[i]) THEN "body_wrap"
        ELSE IF ~HasStoryId(m) THEN "story_id"
        ELSE "none"

DiagnosticOf ==
    [min_lines |-> Diagnostic("ERROR", MsgMinLines),
     title_length |-> Diagnostic("WARNING", MsgTitleLength),
     commit_type |-> Diagnostic("WARNING", MsgCommitType),
     tracker_tool |-> Diagnostic("WARNING", MsgCommitType),
     tracker_reference |-> Diagnostic("WARNING", MsgTrackerRef),
     separator |-> Diagnostic("WARNING", MsgSeparator),
     body_wrap |-> Diagnostic("WARNING", MsgBodyWrap),
     story_id |-> Diagnostic("WARNING", MsgStoryId)]

---------------------------------------------------------------------------
(* Properties *)

\* C1: a message that violates none of the pipeline checks reaches the final
\* step, gets the OK diagnostic "message has required pattern" and the
\* process ends with exit status 0.
C1_CleanMessageAccepted ==
    (Done /\ FirstViolation = "none")
        => (exit_status = 0 /\ Reported("OK", MsgOk))

\* C2: when the comment-stripped message has fewer than 4 lines, the ERROR
\* "insufficient lines" is the only output, the verdict is failing, and no
\* later check is evaluated.
C2_TooFewLinesReported ==
    (pc \notin {"read", "strip", "min_lines"} /\ Len(NonCommentLines) < 4)
        => (StoppedWith("ERROR", MsgMinLines) /\ evaluated = <<"min_lines">>)

C2_Witness ==
    /\ Done
    /\ Len(file) >= 4
    /\ Len(NonCommentLines) = 3
    /\ Reported("ERROR", MsgMinLines)

\* C3: when the message has at least 4 non-comment lines and its title is
\* strictly longer than 50 characters, the title-length WARNING is reported
\* and the process stops, whatever the prefix of the title and the body.
C3_LongTitleReported ==
    (/\ pc \notin {"read", "strip", "min_lines", "title_length"}
     /\ Len(NonCommentLines) >= 4
     /\ Len(TitleText(NonCommentLines[1])) > 50)
        => (/\ StoppedWith("WARNING", MsgTitleLength)
            /\ evaluated = <<"min_lines", "title_length">>)

C3_Witness ==
    /\ Done
    /\ Len(NonCommentLines) >= 4
    /\ Len(TitleText(NonCommentLines[1])) = 51
    /\ StartsWithTypeTag(TitleText(NonCommentLines[1]))
    /\ \E i \in 3..Len(NonCommentLines) : BodyLineTooLong(NonCommentLines[i])
    /\ Reported("WARNING", MsgTitleLength)

\* C4: when the message passes the structure and title-length checks and its
\* title starts with none of the eight type tags and none of the six tracker
\* names, the missing-commit-type WARNING is reported and the process stops.
C4_MissingTypeReported ==
    (/\ pc \notin {"read", "strip", "min_lines", "title_length", "commit_type"}
     /\ PassesStructureAndLength
     /\ ~StartsWithTypeTag(TitleText(NonCommentLines[1]))
     /\ ~StartsWithTrackerName(TitleText(NonCommentLines[1])))
        => (/\ StoppedWith("WARNING", MsgCommitType)
            /\ evaluated = <<"min_lines", "title_length", "commit_type">>)

C4_Witness ==
    /\ Done
    /\ PassesStructureAndLength
    /\ ~StartsWithTypeTag(TitleText(NonCommentLines[1]))
    /\ ~StartsWithTrackerName(TitleText(NonCommentLines[1]))
    /\ \E tag \in TypeTags : Contains(NonCommentLines[1], tag)
    /\ Reported("WARNING", MsgCommitType)

\* C5: for a title <type><tracker-token><digits>, step 6 raises no violation
\* and execution continues to the blank-separator check instead of
\* terminating.
C5_TrackerReferenceContinues ==
    (/\ Done
     /\ PassesStructureAndLength
     /\ IsTypeTokenDigits(TitleText(NonCommentLines[1])))
        => (/\ ~Reported("WARNING", MsgTrackerRef)
            /\ \E i \in 1..Len(evaluated) : evaluated[i] = "separator")

\* C6: for a title <type><tracker-token><non-digits>, the
\* malformed-tracker-reference WARNING is reported and the process stops.
C6_MalformedReferenceReported ==
    (/\ Done
     /\ PassesStructureAndLength
     /\ IsTypeTokenNonDigits(TitleText(NonCommentLines[1])))
        => StoppedWith("WARNING", MsgTrackerRef)

\* C7: when the message passes checks 2 to 6 and the line after the title is
\* not blank, the WARNING "missing blank line between title and body" is
\* reported and the process stops.
C7_MissingSeparatorReported ==
    (/\ Done
     /\ PassesStructureAndLength
     /\ PassesTitleChecks
     /\ SeparatorMissing(NonCommentLines))
        => StoppedWith("WARNING", MsgSeparator)

\* C8 as stated: when the message has at least 4 non-comment lines and its
\* title text, line terminator not counted, has at most 50 characters, no
\* title-length WARNING is reported and validation proceeds to the
\* commit-type check.
C8_Original ==
    (/\ pc \notin {"read", "strip", "min_lines", "title_length"}
     /\ Len(NonCommentLines) >= 4
     /\ Len(TitleText(NonCommentLines[1])) <= 50)
        => (/\ ~Reported("WARNING", MsgTitleLength)
            /\ \/ pc = "commit_type"
               \/ (Len(evaluated) >= 3 /\ evaluated[3] = "commit_type"))

\* C8 amended: when the message has at least 4 non-comment lines and its
\* title text, line terminator not counted, has at most 49 characters (the
\* title line with its terminator has at most 50), no title-length WARNING
\* is reported and validation proceeds to the commit-type check.
C8_ShortTitleProceeds ==
    (/\ pc \notin {"read", "strip", "min_lines", "title_length"}
     /\ Len(NonCommentLines) >= 4
     /\ Len(TitleText(NonCommentLines[1])) <= 49)
        => (/\ ~Reported("WARNING", MsgTitleLength)
            /\ \/ pc = "commit_type"
               \/ (Len(evaluated) >= 3 /\ evaluated[3] = "commit_type"))

C8_Witness ==
    /\ Len(NonCommentLines) >= 4
    /\ Len(TitleText(NonCommentLines[1])) = 49
    /\ Len(evaluated) >= 3
    /\ evaluated[3] = "commit_type"
    /\ ~Reported("WARNING", MsgTitleLength)

\* C9: the checks are evaluated in pipeline order and at most one diagnostic
\* is emitted; it is the diagnostic of the earliest check the message
\* violates, and no check after the first failing one is evaluated.
C9_FirstViolationIsTheDiagnostic ==
    Done =>
        /\ Len(Diagnostics) <= 1
        /\ FirstViolation # "none" =>
              /\ Diagnostics = <<DiagnosticOf[FirstViolation]>>
              /\ evaluated[Len(evaluated)] = FirstViolation

\* C10: every run that ends with a non-zero exit status has emitted a
\* WARNING or ERROR diagnostic before exiting.
C10_FailureHasDiagnostic ==
    (Done /\ exit_status # 0)
        => \E i \in 1..Len(stdout) :
              stdout[i].kind = "diagnostic" /\ stdout[i].level \in {"WARNING", "ERROR"}

=============================================================================
